---------------------------- MODULE Spec2Model ----------------------------
(***************************************************************************)
(* A model of editorconfig-core-rust: the glob compiler (glob.rs), the     *)
(* cascading resolver and the property post-processor (lib.rs), and the    *)
(* Document parser of the tamlil-editorconfig crate (core.rs).             *)
(*                                                                         *)
(* Text is modelled as a sequence of one-character strings, so that the    *)
(* code's scanning, trimming, splitting and case conversion are computed   *)
(* character by character as the code computes them.                       *)
(***************************************************************************)
EXTENDS Integers, Sequences, FiniteSets, TLC

(***************************************************************************)
(* std::str helpers                                                        *)
(***************************************************************************)

\* Option<T>: a record with a presence flag.
Some(v) == [some |-> TRUE, v |-> v]

None == [some |-> FALSE, v |-> <<>>]

\* char::is_whitespace restricted to ASCII.
WhiteSpace == {" ", "\t", "\n", "\r", "\f"}

Digits == {"0", "1", "2", "3", "4", "5", "6", "7", "8", "9"}

DigitValue ==
  [d \in Digits |->
     CASE d = "0" -> 0 [] d = "1" -> 1 [] d = "2" -> 2 [] d = "3" -> 3
       [] d = "4" -> 4 [] d = "5" -> 5 [] d = "6" -> 6 [] d = "7" -> 7
       [] d = "8" -> 8 [] d = "9" -> 9]

UpperCase ==
  {"A", "B", "C", "D", "E", "F", "G", "H", "I", "J", "K", "L", "M",
   "N", "O", "P", "Q", "R", "S", "T", "U", "V", "W", "X", "Y", "Z"}

LowerOf ==
  [c \in UpperCase |->
     CASE c = "A" -> "a" [] c = "B" -> "b" [] c = "C" -> "c" [] c = "D" -> "d"
       [] c = "E" -> "e" [] c = "F" -> "f" [] c = "G" -> "g" [] c = "H" -> "h"
       [] c = "I" -> "i" [] c = "J" -> "j" [] c = "K" -> "k" [] c = "L" -> "l"
       [] c = "M" -> "m" [] c = "N" -> "n" [] c = "O" -> "o" [] c = "P" -> "p"
       [] c = "Q" -> "q" [] c = "R" -> "r" [] c = "S" -> "s" [] c = "T" -> "t"
       [] c = "U" -> "u" [] c = "V" -> "v" [] c = "W" -> "w" [] c = "X" -> "x"
       [] c = "Y" -> "y" [] c = "Z" -> "z"]

\* char lowercase, ASCII.
LowerChar(c) == IF c \in UpperCase THEN LowerOf[c] ELSE c

\* str::to_lowercase
to_lowercase(s) == [i \in 1..Len(s) |-> LowerChar(s[i])]

\* str::eq_ignore_ascii_case
eq_ignore_ascii_case(a, b) == to_lowercase(a) = to_lowercase(b)

\* str::strip_prefix(char)
strip_prefix(s, c) ==
  IF Len(s) > 0 /\ s[1] = c THEN Some(Tail(s)) ELSE None

\* str::strip_suffix(char)
strip_suffix(s, c) ==
  IF Len(s) > 0 /\ s[Len(s)] = c THEN Some(SubSeq(s, 1, Len(s) - 1)) ELSE None

\* Option::unwrap_or
unwrap_or(o, d) == IF o.some THEN o.v ELSE d

RECURSIVE trim_start(_)
trim_start(s) ==
  IF Len(s) > 0 /\ s[1] \in WhiteSpace THEN trim_start(Tail(s)) ELSE s

RECURSIVE trim_end(_)
trim_end(s) ==
  IF Len(s) > 0 /\ s[Len(s)] \in WhiteSpace
  THEN trim_end(SubSeq(s, 1, Len(s) - 1))
  ELSE s

\* str::trim
trim(s) == trim_end(trim_start(s))

\* str::contains(char)
contains(s, c) == \E i \in 1..Len(s) : s[i] = c

\* The index of the first place where `pat` occurs in `s`, 0 when it does not.
find(s, pat) ==
  LET hits == {i \in 1..(Len(s) - Len(pat) + 1) :
                 SubSeq(s, i, i + Len(pat) - 1) = pat}
  IN  IF hits = {} THEN 0 ELSE CHOOSE i \in hits : \A j \in hits : i <= j

\* str::split_once
split_once(s, pat) ==
  LET i == find(s, pat)
  IN  IF i = 0
      THEN None
      ELSE Some(<<SubSeq(s, 1, i - 1), SubSeq(s, i + Len(pat), Len(s))>>)

I32_MAX == 2147483647

RECURSIVE DecimalValue(_)
DecimalValue(ds) ==
  IF Len(ds) = 0
  THEN 0
  ELSE 10 * DecimalValue(SubSeq(ds, 1, Len(ds) - 1)) + DigitValue[ds[Len(ds)]]

\* str::parse::<i32>: an optional sign, then one or more digits, in range.
parse_i32(s) ==
  LET signed == Len(s) > 0 /\ s[1] \in {"+", "-"}
      ds     == IF signed THEN Tail(s) ELSE s
      mag    == DecimalValue(ds)
      n      == IF signed /\ s[1] = "-" THEN 0 - mag ELSE mag
  IN  IF Len(ds) = 0 \/ (\E i \in 1..Len(ds) : ds[i] \notin Digits)
      THEN None
      ELSE IF n > I32_MAX \/ n < (0 - I32_MAX) - 1 THEN None ELSE Some(n)

(***************************************************************************)
(* glob.rs: the translation of a glob pattern to a regular expression.     *)
(*                                                                         *)
(* The regular expression is kept as the sequence of the pieces the        *)
(* parser pushes: every piece is a complete regex atom or operator, so the *)
(* sequence of pieces is the syntax the regex library parses.              *)
(*   lit      a literal character (esc: pushed with a backslash)           *)
(*   any      [^/]            star    [^/]*            dstar   .*          *)
(*   num      ([\+\-]?\d+)    a capturing group                            *)
(*   lparen   (               the start of a capturing group               *)
(*   optcolon :?              an optional colon                            *)
(*   rparen   )               alt     |                                    *)
(*   copen    [               cneg    ^ after [        cclose  ]           *)
(***************************************************************************)

\* regex_syntax::is_meta_character
MetaChars ==
  {"\\", ".", "+", "*", "?", "(", ")", "|", "[", "]", "{", "}", "^", "$",
   "#", "&", "-", "~"}

is_meta_character(ch) == ch \in MetaChars

Lit(ch, esc) == [t |-> "lit", c |-> ch, esc |-> esc]

Tok(kind) == [t |-> kind, c |-> "", esc |-> FALSE]

\* fn check_are_braces_paired
RECURSIVE braces_scan(_, _, _, _, _)
braces_scan(pattern, i, escaped, left, right) ==
  IF i > Len(pattern)
  THEN left = right
  ELSE LET byte == pattern[i]
           esc1 == IF escaped THEN FALSE ELSE byte = "\\"
           l1   == IF ~escaped /\ byte = "{" THEN left + 1 ELSE left
           r1   == IF ~escaped /\ byte = "}" THEN right + 1 ELSE right
       IN  IF l1 < r1 THEN FALSE ELSE braces_scan(pattern, i + 1, esc1, l1, r1)

check_are_braces_paired(pattern) == braces_scan(pattern, 1, FALSE, 0, 0)

\* fn is_single_item_braces: the offset (from 0) of the first unescaped `}`
\* met before any unescaped `,`.
RECURSIVE single_item_scan(_, _, _)
single_item_scan(s, idx, escaped) ==
  IF idx >= Len(s)
  THEN None
  ELSE LET byte == s[idx + 1]
       IN  IF escaped THEN single_item_scan(s, idx + 1, FALSE)
           ELSE IF byte = "\\" THEN single_item_scan(s, idx + 1, TRUE)
           ELSE IF byte = "}" THEN Some(idx)
           ELSE IF byte = "," THEN None
           ELSE single_item_scan(s, idx + 1, FALSE)

is_single_item_braces(s) == single_item_scan(s, 0, FALSE)

\* fn parse_range: `{num1..num2}` as the inclusive range <<num1, num2>>.
parse_range(s) ==
  LET a == strip_prefix(s, "{")
      b == IF a.some THEN strip_suffix(a.v, "}") ELSE None
      c == IF b.some THEN split_once(b.v, <<".", ".">>) ELSE None
      start == IF c.some THEN parse_i32(c.v[1]) ELSE None
      end   == IF c.some THEN parse_i32(c.v[2]) ELSE None
  IN  IF c.some /\ start.some /\ end.some THEN Some(<<start.v, end.v>>) ELSE None

\* Parser::new
Parser_new(pattern) ==
  [pattern           |-> pattern,
   next              |-> 1,
   curr              |-> 0,
   are_braces_paired |-> check_are_braces_paired(pattern),
   brace_level       |-> 0,
   num_ranges        |-> <<>>,
   regex             |-> <<>>]

\* Parser::bump: `curr` is the index of the character taken, 0 for None.
bump(self) ==
  IF self.next > Len(self.pattern)
  THEN [self EXCEPT !.curr = 0]
  ELSE [self EXCEPT !.curr = self.next, !.next = self.next + 1]

\* Parser::peek
peek(self) ==
  IF self.next > Len(self.pattern) THEN None ELSE Some(self.pattern[self.next])

push(self, piece) == [self EXCEPT !.regex = Append(self.regex, piece)]

\* Parser::parse_literal
parse_literal(self, ch) == push(self, Lit(ch, is_meta_character(ch)))

RECURSIVE parse_literals(_, _)
parse_literals(self, s) ==
  IF Len(s) = 0 THEN self ELSE parse_literals(parse_literal(self, s[1]), Tail(s))

\* Parser::parse_escape
parse_escape(self) ==
  LET b == bump(self)
  IN  IF b.curr # 0
      THEN LET ch == b.pattern[b.curr]
           IN  IF is_meta_character(ch)
               THEN push(b, Lit(ch, TRUE))
               ELSE push(push(b, Lit("\\", TRUE)), Lit(ch, FALSE))
      ELSE push(b, Lit("\\", TRUE))

\* Parser::parse_any
parse_any(self) == push(self, Tok("any"))

\* Parser::parse_star
parse_star(self) ==
  IF peek(self).some /\ peek(self).v = "*"
  THEN push(bump(self), Tok("dstar"))
  ELSE push(self, Tok("star"))

\* Parser::parse_bracket, the loop to the closing `]`
RECURSIVE bracket_loop(_, _)
bracket_loop(self, escaped) ==
  LET b == bump(self)
  IN  IF b.curr = 0
      THEN b
      ELSE LET ch == b.pattern[b.curr]
           IN  IF escaped THEN bracket_loop(parse_literal(b, ch), FALSE)
               ELSE IF ch = "\\" THEN bracket_loop(b, TRUE)
               ELSE IF ch = "]" THEN push(b, Tok("cclose"))
               ELSE bracket_loop(parse_literal(b, ch), FALSE)

\* Parser::parse_bracket
parse_bracket(self) ==
  LET opened == push(self, Tok("copen"))
  IN  IF peek(opened).some /\ peek(opened).v = "!"
      THEN bracket_loop(push(bump(opened), Tok("cneg")), FALSE)
      ELSE bracket_loop(opened, FALSE)

\* Parser::increase_brace_level (0 is None; the saturation at u32::MAX is out
\* of reach of any pattern that fits in memory).
increase_brace_level(self) == [self EXCEPT !.brace_level = @ + 1]

\* Parser::decrease_brace_level
decrease_brace_level(self) ==
  [self EXCEPT !.brace_level = IF @ = 0 THEN 0 ELSE @ - 1]

\* Parser::parse_open_brace
parse_open_brace(self) ==
  IF ~self.are_braces_paired
  THEN push(self, Lit("{", TRUE))
  ELSE LET curr_idx == self.curr
           closing  == is_single_item_braces(
                         SubSeq(self.pattern, curr_idx, Len(self.pattern)))
       IN  IF closing.some
           THEN LET s     == SubSeq(self.pattern, curr_idx, curr_idx + closing.v)
                    range == parse_range(s)
                    out   == IF range.some
                             THEN [push(self, Tok("num")) EXCEPT
                                     !.num_ranges = Append(@, range.v)]
                             ELSE parse_literals(self, s)
                IN  [out EXCEPT !.curr = curr_idx + Len(s) - 1,
                                !.next = curr_idx + Len(s)]
           ELSE increase_brace_level(
                  push(push(self, Tok("lparen")), Tok("optcolon")))

\* Parser::parse_close_brace
parse_close_brace(self) ==
  IF ~self.are_braces_paired
  THEN push(self, Lit("}", TRUE))
  ELSE decrease_brace_level(push(self, Tok("rparen")))

\* Parser::parse_comma
parse_comma(self) ==
  IF self.brace_level # 0
  THEN push(self, Tok("alt"))
  ELSE push(self, Lit(",", TRUE))

\* Parser::parse
RECURSIVE Parser_parse(_)
Parser_parse(self) ==
  LET b == bump(self)
  IN  IF b.curr = 0
      THEN <<b.regex, b.num_ranges>>
      ELSE LET ch == b.pattern[b.curr]
           IN  Parser_parse(
                 CASE ch = "\\" -> parse_escape(b)
                   [] ch = "?"  -> parse_any(b)
                   [] ch = "*"  -> parse_star(b)
                   [] ch = "["  -> parse_bracket(b)
                   [] ch = "{"  -> parse_open_brace(b)
                   [] ch = "}"  -> parse_close_brace(b)
                   [] ch = ","  -> parse_comma(b)
                   [] OTHER     -> parse_literal(b, ch))

(***************************************************************************)
(* The regex library, as far as the pieces above use it: Regex::new        *)
(* (which patterns compile) and Regex::captures (leftmost-first matching   *)
(* of an expression anchored at both ends).                                *)
(***************************************************************************)

\* Whether the pieces re[i..j-1], read from nesting depth `depth`, make a
\* well-formed expression: every `)` closes a group, every group is closed,
\* every class is closed and holds at least one item (a `]` right after `[`
\* or `[^` is an item of the class, which then never closes).
RECURSIVE well_formed(_, _, _, _, _)
well_formed(re, i, depth, in_class, items) ==
  IF i > Len(re)
  THEN depth = 0 /\ ~in_class
  ELSE LET t == re[i].t
       IN  IF in_class
           THEN IF t = "cclose"
                THEN items > 0 /\ well_formed(re, i + 1, depth, FALSE, 0)
                ELSE IF t = "cneg"
                THEN well_formed(re, i + 1, depth, TRUE, items)
                ELSE well_formed(re, i + 1, depth, TRUE, items + 1)
           ELSE IF t = "copen" THEN well_formed(re, i + 1, depth, TRUE, 0)
           ELSE IF t = "lparen" THEN well_formed(re, i + 1, depth + 1, FALSE, 0)
           ELSE IF t = "rparen"
           THEN depth > 0 /\ well_formed(re, i + 1, depth - 1, FALSE, 0)
           ELSE well_formed(re, i + 1, depth, FALSE, 0)

\* Regex::new(..).is_ok()
Regex_new_ok(re) == well_formed(re, 1, 0, FALSE, 0)

\* The number of the capturing group that opens at piece i.
group_index(re, i) == Cardinality({k \in 1..i : re[k].t \in {"lparen", "num"}})

group_count(re) == group_index(re, Len(re))

\* The nesting depth of piece k relative to piece i (i <= k).
depth_at(re, i, k) ==
  Cardinality({n \in i..(k - 1) : re[n].t = "lparen"})
    - Cardinality({n \in i..(k - 1) : re[n].t = "rparen"})

\* The `)` that closes the group opened at piece i.
matching_paren(re, i) ==
  CHOOSE m \in (i + 1)..Len(re) :
    /\ re[m].t = "rparen"
    /\ depth_at(re, i, m) = 1
    /\ \A n \in (i + 1)..(m - 1) : ~(re[n].t = "rparen" /\ depth_at(re, i, n) = 1)

\* The first `|` of re[i..j-1] outside any group, 0 when there is none.
first_alt(re, i, j) ==
  LET alts == {k \in i..(j - 1) : re[k].t = "alt" /\ depth_at(re, i, k) = 0}
  IN  IF alts = {} THEN 0 ELSE CHOOSE k \in alts : \A n \in alts : k <= n

\* The `]` that closes the class opened at piece i.
class_close(re, i) ==
  CHOOSE m \in (i + 1)..Len(re) :
    re[m].t = "cclose" /\ \A n \in (i + 1)..(m - 1) : re[n].t # "cclose"

\* The length of the longest run of characters of `path` from `pos` on that
\* are in `allowed`.
RECURSIVE run_length(_, _, _)
run_length(path, pos, allowed) ==
  IF pos > Len(path) THEN 0
  ELSE IF path[pos] \in allowed
       THEN 1 + run_length(path, pos + 1, allowed)
       ELSE 0

\* The same for the characters that are not in `excluded`.
RECURSIVE run_length_not(_, _, _)
run_length_not(path, pos, excluded) ==
  IF pos > Len(path) THEN 0
  ELSE IF path[pos] \notin excluded
       THEN 1 + run_length_not(path, pos + 1, excluded)
       ELSE 0

\* Lengths n, n-1, .., lo: a greedy repetition tries the longest first.
greedy(n, lo) == [k \in 1..(n - lo + 1) |-> n + 1 - k]

\* A match of re[i..j-1] from `pos`: where it ends and what the groups hold.
\* The operators below give every match, in the order of preference of a
\* backtracking (leftmost-first) matcher.
RECURSIVE match_alt(_, _, _, _, _, _)
RECURSIVE match_cat(_, _, _, _, _, _)
RECURSIVE match_lengths(_, _, _, _, _, _, _, _)
RECURSIVE match_after(_, _, _, _, _, _, _, _)

\* re[i..j-1] as alternatives: those of the first branch come first.
match_alt(re, i, j, path, pos, caps) ==
  LET a == first_alt(re, i, j)
  IN  IF a = 0
      THEN match_cat(re, i, j, path, pos, caps)
      ELSE match_cat(re, i, a, path, pos, caps)
             \o match_alt(re, a + 1, j, path, pos, caps)

\* The matches of re[i..j-1] after its first piece took one of `lengths`
\* characters (in that order); group g, when not 0, captures those characters.
match_lengths(re, i, j, path, pos, caps, lengths, g) ==
  IF Len(lengths) = 0
  THEN <<>>
  ELSE LET e  == pos + lengths[1]
           c1 == IF g = 0 THEN caps
                 ELSE [caps EXCEPT ![g] = Some(SubSeq(path, pos, e - 1))]
       IN  match_cat(re, i, j, path, e, c1)
             \o match_lengths(re, i, j, path, pos, caps, Tail(lengths), g)

\* The matches of re[i..j-1] after group g, opened at `pos`, matched as in
\* `inner` (in that order).
match_after(re, i, j, path, pos, inner, g, k) ==
  IF k > Len(inner)
  THEN <<>>
  ELSE LET r  == inner[k]
           c1 == [r.caps EXCEPT ![g] = Some(SubSeq(path, pos, r.pos - 1))]
       IN  match_cat(re, i, j, path, r.pos, c1)
             \o match_after(re, i, j, path, pos, inner, g, k + 1)

\* re[i..j-1] as a concatenation (no `|` outside a group).
match_cat(re, i, j, path, pos, caps) ==
  IF i >= j
  THEN << [pos |-> pos, caps |-> caps] >>
  ELSE LET t    == re[i].t
           here == pos <= Len(path)
       IN  CASE t = "lit" ->
                  IF here /\ path[pos] = re[i].c
                  THEN match_cat(re, i + 1, j, path, pos + 1, caps)
                  ELSE <<>>
             [] t = "any" ->
                  IF here /\ path[pos] # "/"
                  THEN match_cat(re, i + 1, j, path, pos + 1, caps)
                  ELSE <<>>
             [] t = "star" ->
                  match_lengths(re, i + 1, j, path, pos, caps,
                                greedy(run_length_not(path, pos, {"/"}), 0), 0)
             [] t = "dstar" ->
                  match_lengths(re, i + 1, j, path, pos, caps,
                                greedy(Len(path) - pos + 1, 0), 0)
             [] t = "optcolon" ->
                  match_lengths(re, i + 1, j, path, pos, caps,
                                IF here /\ path[pos] = ":" THEN <<1, 0>> ELSE <<0>>,
                                0)
             [] t = "num" ->
                  LET signed == here /\ path[pos] \in {"+", "-"}
                      d1     == run_length(path, pos + 1, Digits)
                      d0     == run_length(path, pos, Digits)
                      with_sign == IF signed /\ d1 > 0
                                   THEN [k \in 1..d1 |-> 1 + greedy(d1, 1)[k]]
                                   ELSE <<>>
                      no_sign   == IF d0 > 0 THEN greedy(d0, 1) ELSE <<>>
                  IN  match_lengths(re, i + 1, j, path, pos, caps,
                                    with_sign \o no_sign, group_index(re, i))
             [] t = "lparen" ->
                  LET m == matching_paren(re, i)
                  IN  match_after(re, m + 1, j, path, pos,
                                  match_alt(re, i + 1, m, path, pos, caps),
                                  group_index(re, i), 1)
             [] t = "copen" ->
                  LET m     == class_close(re, i)
                      neg   == re[i + 1].t = "cneg"
                      items == {re[n].c : n \in {q \in (i + 1)..(m - 1) : re[q].t = "lit"}}
                  IN  IF here /\ ((path[pos] \in items) # neg)
                      THEN match_cat(re, m + 1, j, path, pos + 1, caps)
                      ELSE <<>>
             [] OTHER -> <<>>

\* Regex::captures on the expression between `^` and `$`: the groups of the
\* preferred match that spans the whole of `path`, None when there is none.
Regex_captures(re, path) ==
  LET all  == match_alt(re, 1, Len(re) + 1, path, 1,
                        [g \in 1..group_count(re) |-> None])
      full == SelectSeq(all, LAMBDA r : r.pos = Len(path) + 1)
  IN  IF Len(full) = 0 THEN None ELSE Some(full[1].caps)

(***************************************************************************)
(* glob.rs: Glob                                                           *)
(***************************************************************************)

\* regex::escape
regex_escape(s) == [i \in 1..Len(s) |-> Lit(s[i], is_meta_character(s[i]))]

\* Glob::new, Err(e)
Glob_err(e) == [ok |-> FALSE, err |-> e, re |-> <<>>, num_ranges |-> <<>>]

\* Glob::new, from Regex::new on.
Glob_compile(regex, num_ranges) ==
  IF ~Regex_new_ok(regex)
  THEN Glob_err("RegexCompilation")
  ELSE [ok |-> TRUE, err |-> "", re |-> regex, num_ranges |-> num_ranges]

\* Glob::new that joins a pattern without separator to ec_dir with a single
\* `/`, as it does a pattern with one.
Glob_anchor_no_subdirs(ec_dir, pattern, parsed) ==
  LET starts_with_sep == Len(pattern) > 0 /\ pattern[1] = "/"
  IN  IF ~(\A i \in 1..Len(parsed[2]) : parsed[2][i][1] < parsed[2][i][2])
      THEN Glob_err("InvalidRange")
      ELSE Glob_compile(
             regex_escape(ec_dir)
               \o (IF ~starts_with_sep THEN <<Lit("/", FALSE)>> ELSE <<>>)
               \o parsed[1],
             parsed[2])

\* Glob::new, from the check of the ranges on: `parsed` is what the parser
\* returned.
Glob_anchor(ec_dir, pattern, parsed) ==
  LET has_seperator   == contains(pattern, "/")
      starts_with_sep == Len(pattern) > 0 /\ pattern[1] = "/"
  IN  IF ~(\A i \in 1..Len(parsed[2]) : parsed[2][i][1] < parsed[2][i][2])
      THEN Glob_err("InvalidRange")
      ELSE Glob_compile(
             regex_escape(ec_dir)
               \o (IF ~has_seperator THEN <<Tok("dstar"), Lit("/", FALSE)>>
                   ELSE IF ~starts_with_sep THEN <<Lit("/", FALSE)>>
                   ELSE <<>>)
               \o parsed[1],
             parsed[2])

\* Glob::new: Ok(Glob {re, num_ranges}) or Err(err).
Glob_new(ec_dir, pattern) ==
  IF Len(ec_dir) > 0 /\ ec_dir[Len(ec_dir)] = "/"
  THEN Glob_err("NonDirPath")
  ELSE Glob_anchor(ec_dir, pattern, Parser_parse(Parser_new(pattern)))

\* Glob::is_match, fn match_in_range
match_in_range(mat, rng) ==
  LET n == parse_i32(mat)
  IN  n.some /\ rng[1] <= n.v /\ n.v <= rng[2]

\* The zip of the groups (each unwrapped when taken) with the ranges, and
\* `all` over it: "true", "false", or "panic" when a group that did not
\* take part in the match is unwrapped.
RECURSIVE zip_all(_, _, _)
zip_all(caps, num_ranges, i) ==
  IF i > Len(caps) THEN "true"
  ELSE IF ~caps[i].some THEN "panic"
  ELSE IF i > Len(num_ranges) THEN "true"
  ELSE IF ~match_in_range(caps[i].v, num_ranges[i]) THEN "false"
  ELSE zip_all(caps, num_ranges, i + 1)

\* Glob::is_match
Glob_all_in_range(caps, num_ranges) ==
  IF ~caps.some THEN "false" ELSE zip_all(caps.v, num_ranges, 1)

Glob_is_match(glob, path) ==
  Glob_all_in_range(Regex_captures(glob.re, path), glob.num_ranges)

(***************************************************************************)
(* version.rs                                                              *)
(***************************************************************************)

\* Ord for Version: major, then minor, then patch.
Version_cmp(a, b) ==
  IF a[1] # b[1] THEN (IF a[1] < b[1] THEN "Less" ELSE "Greater")
  ELSE IF a[2] # b[2] THEN (IF a[2] < b[2] THEN "Less" ELSE "Greater")
  ELSE IF a[3] # b[3] THEN (IF a[3] < b[3] THEN "Less" ELSE "Greater")
  ELSE "Equal"

is_ge(ord) == ord \in {"Greater", "Equal"}

is_lt(ord) == ord = "Less"

(***************************************************************************)
(* lib.rs: the property map (HashMap<String, String>)                      *)
(***************************************************************************)

MAX_VERSION == <<0, 17, 2>>

V0_9_0 == <<0, 9, 0>>

INDENT_STYLE == <<"i", "n", "d", "e", "n", "t", "_", "s", "t", "y", "l", "e">>

INDENT_SIZE == <<"i", "n", "d", "e", "n", "t", "_", "s", "i", "z", "e">>

TAB_WIDTH == <<"t", "a", "b", "_", "w", "i", "d", "t", "h">>

TAB == <<"t", "a", "b">>

END_OF_LINE == <<"e", "n", "d", "_", "o", "f", "_", "l", "i", "n", "e">>

INSERT_FINAL_NEWLINE ==
  <<"i", "n", "s", "e", "r", "t", "_", "f", "i", "n", "a", "l", "_",
    "n", "e", "w", "l", "i", "n", "e">>

TRIM_TRAILING_WHITESPACE ==
  <<"t", "r", "i", "m", "_", "t", "r", "a", "i", "l", "i", "n", "g", "_",
    "w", "h", "i", "t", "e", "s", "p", "a", "c", "e">>

CHARSET == <<"c", "h", "a", "r", "s", "e", "t">>

UNSET == <<"u", "n", "s", "e", "t">>

ROOT == <<"r", "o", "o", "t">>

TRUE_STR == <<"t", "r", "u", "e">>

SPECIAL_KEYS ==
  {END_OF_LINE, INDENT_STYLE, INDENT_SIZE, INSERT_FINAL_NEWLINE,
   TRIM_TRAILING_WHITESPACE, CHARSET}

COMMENT == {"#", ";"}

\* HashMap::new
HashMap_new == [k \in {} |-> <<>>]

\* HashMap::contains_key
contains_key(m, k) == k \in DOMAIN m

\* HashMap::insert
insert(m, k, v) == [x \in DOMAIN m \cup {k} |-> IF x = k THEN v ELSE m[x]]

\* A clear that leaves the map as it is.
clear_keeps(m) == m

\* HashMap::clear
clear(m) == HashMap_new

\* HashMap::retain: the entries whose key is in `keep`.
retain(m, keep) == [x \in DOMAIN m \cap keep |-> m[x]]

\* A retain that drops the entries whose value is `unset`, whatever the case.
retain_value_not_unset(properties) ==
  retain(properties,
         {key \in DOMAIN properties : ~eq_ignore_ascii_case(properties[key], UNSET)})

\* properties_with_options: properties.retain(|key, _value| key != "unset")
retain_not_unset(properties) ==
  retain(properties, {key \in DOMAIN properties : key # UNSET})

\* insert_pair that stores the key as the file writes it.
insert_pair_raw_key(properties, key, value) ==
  LET v == IF to_lowercase(key) \in SPECIAL_KEYS THEN to_lowercase(value) ELSE value
  IN  insert(properties, key, v)

\* insert_pair that keeps the value a key already has.
insert_pair_first_wins(properties, key, value) ==
  LET k == to_lowercase(key)
      v == IF k \in SPECIAL_KEYS THEN to_lowercase(value) ELSE value
  IN  IF contains_key(properties, k) THEN properties ELSE insert(properties, k, v)

\* fn insert_pair
insert_pair(properties, key, value) ==
  LET k == to_lowercase(key)
      v == IF k \in SPECIAL_KEYS THEN to_lowercase(value) ELSE value
  IN  insert(properties, k, v)

\* fn parse_pair
parse_pair(line) ==
  LET kv == split_once(line, <<"=">>)
  IN  IF ~kv.some THEN None
      ELSE LET key   == trim(kv.v[1])
               value == trim(kv.v[2])
           IN  IF Len(key) # 0 THEN Some(<<key, value>>) ELSE None

\* The build target: cfg!(windows).
cfg_windows == FALSE

\* fn normalize_path
normalize_path(path) ==
  IF cfg_windows
  THEN [i \in 1..Len(path) |-> IF path[i] = "\\" THEN "/" ELSE path[i]]
  ELSE path

\* parse_section: Ok(Some(glob.is_match(..))), `m` being what is_match gave.
section_is_match(m) ==
  IF m = "panic" THEN [tag |-> "Panic", v |-> "None"]
  ELSE [tag |-> "Ok", v |-> IF m = "true" THEN "Some(true)" ELSE "Some(false)"]

\* parse_section that takes a glob that does not compile for one that does
\* not match.
section_of_glob_no_error(glob, normalized_file_path) ==
  IF ~glob.ok THEN [tag |-> "Ok", v |-> "Some(false)"]
  ELSE section_is_match(Glob_is_match(glob, normalized_file_path))

\* parse_section, from Glob::new(..).map_err(|_| Error::Parse)? on.
section_of_glob(glob, normalized_file_path) ==
  IF ~glob.ok THEN [tag |-> "Err", v |-> "Parse"]
  ELSE section_is_match(Glob_is_match(glob, normalized_file_path))

\* fn parse_section: Ok(None), Ok(Some(bool)), Err(Error::Parse), or the
\* panic of is_match.
parse_section(normalized_file_path, normalized_ec_dir, line) ==
  LET a       == strip_prefix(line, "[")
      pattern == IF a.some THEN strip_suffix(a.v, "]") ELSE None
  IN  IF ~pattern.some THEN [tag |-> "Ok", v |-> "None"]
      ELSE section_of_glob(Glob_new(normalized_ec_dir, pattern.v),
                           normalized_file_path)

\* process_properties with its first two rules in the other order.
process_properties_b_before_a(properties, version) ==
  LET p1 == IF /\ is_ge(Version_cmp(version, V0_9_0))
               /\ contains_key(properties, INDENT_SIZE)
               /\ properties[INDENT_SIZE] = TAB
               /\ contains_key(properties, TAB_WIDTH)
            THEN insert(properties, INDENT_SIZE, properties[TAB_WIDTH])
            ELSE properties
      p2 == IF /\ is_ge(Version_cmp(version, V0_9_0))
               /\ contains_key(p1, INDENT_STYLE)
               /\ p1[INDENT_STYLE] = TAB
               /\ ~contains_key(p1, INDENT_SIZE)
            THEN insert(p1, INDENT_SIZE, TAB)
            ELSE p1
  IN  IF /\ contains_key(p2, INDENT_SIZE)
         /\ ~contains_key(p2, TAB_WIDTH)
         /\ (is_lt(Version_cmp(version, V0_9_0)) \/ p2[INDENT_SIZE] # TAB)
      THEN insert(p2, TAB_WIDTH, p2[INDENT_SIZE])
      ELSE p2

\* process_properties without its last rule (tab_width from indent_size).
process_properties_no_tab_width(properties, version) ==
  LET p1 == IF /\ is_ge(Version_cmp(version, V0_9_0))
               /\ contains_key(properties, INDENT_STYLE)
               /\ properties[INDENT_STYLE] = TAB
               /\ ~contains_key(properties, INDENT_SIZE)
            THEN insert(properties, INDENT_SIZE, TAB)
            ELSE properties
  IN  IF /\ is_ge(Version_cmp(version, V0_9_0))
         /\ contains_key(p1, INDENT_SIZE)
         /\ p1[INDENT_SIZE] = TAB
         /\ contains_key(p1, TAB_WIDTH)
      THEN insert(p1, INDENT_SIZE, p1[TAB_WIDTH])
      ELSE p1

\* fn process_properties
process_properties(properties, version) ==
  LET p1 == IF /\ is_ge(Version_cmp(version, V0_9_0))
               /\ contains_key(properties, INDENT_STYLE)
               /\ properties[INDENT_STYLE] = TAB
               /\ ~contains_key(properties, INDENT_SIZE)
            THEN insert(properties, INDENT_SIZE, TAB)
            ELSE properties
      p2 == IF /\ is_ge(Version_cmp(version, V0_9_0))
               /\ contains_key(p1, INDENT_SIZE)
               /\ p1[INDENT_SIZE] = TAB
               /\ contains_key(p1, TAB_WIDTH)
            THEN insert(p1, INDENT_SIZE, p1[TAB_WIDTH])
            ELSE p1
  IN  IF /\ contains_key(p2, INDENT_SIZE)
         /\ ~contains_key(p2, TAB_WIDTH)
         /\ (is_lt(Version_cmp(version, V0_9_0)) \/ p2[INDENT_SIZE] # TAB)
      THEN insert(p2, TAB_WIDTH, p2[INDENT_SIZE])
      ELSE p2

\* Path::parent of an absolute path, None for the root.
Path_parent(path) ==
  LET seps == {i \in 1..Len(path) : path[i] = "/"}
      last == CHOOSE i \in seps : \A j \in seps : j <= i
  IN  IF Len(path) <= 1 THEN None
      ELSE IF last = 1 THEN Some(<<"/">>)
      ELSE Some(SubSeq(path, 1, last - 1))

\* Path::ancestors: the path, its parent, and so on up to the root.
RECURSIVE Path_ancestors(_)
Path_ancestors(path) ==
  LET up == Path_parent(path)
  IN  IF up.some THEN <<path>> \o Path_ancestors(up.v) ELSE <<path>>

\* path.ancestors().skip(1), walked with .rev(): the directories of the
\* path, the root first.
dirs_of(path) ==
  LET anc == Tail(Path_ancestors(path))
  IN  [i \in 1..Len(anc) |-> anc[Len(anc) + 1 - i]]

\* parse_dir that takes `root = true` for the root marker wherever no
\* matching section holds, not in the preamble alone.
parse_dir_branch_root_anywhere(properties, section_matches_file, l, sec, pair) ==
  LET Same == [tag |-> "Ok", properties |-> properties,
               section_matches_file |-> section_matches_file]
  IN  IF Len(l) > 0 /\ l[1] \in COMMENT THEN Same
      ELSE IF sec.tag # "Ok"
      THEN [Same EXCEPT !.tag = IF sec.tag = "Err" THEN "Parse" ELSE "Panic"]
      ELSE IF sec.v # "None"
      THEN [Same EXCEPT !.section_matches_file = sec.v]
      ELSE IF section_matches_file = "Some(true)" /\ pair.some
      THEN [Same EXCEPT !.properties =
                          insert_pair(properties, pair.v[1], pair.v[2])]
      ELSE IF /\ pair.some
              /\ eq_ignore_ascii_case(pair.v[1], ROOT)
              /\ eq_ignore_ascii_case(pair.v[2], TRUE_STR)
      THEN [Same EXCEPT !.properties = clear(properties)]
      ELSE Same

\* fn parse_dir, one turn of the loop over the lines of the file: what the
\* line does to the property map and to section_matches_file, or the error
\* that ends the call.
parse_dir_branch(properties, section_matches_file, l, sec, pair) ==
  LET Same == [tag |-> "Ok", properties |-> properties,
               section_matches_file |-> section_matches_file]
  IN  IF Len(l) > 0 /\ l[1] \in COMMENT THEN Same
      ELSE IF sec.tag # "Ok"
      THEN [Same EXCEPT !.tag = IF sec.tag = "Err" THEN "Parse" ELSE "Panic"]
      ELSE IF sec.v # "None"
      THEN [Same EXCEPT !.section_matches_file = sec.v]
      ELSE IF section_matches_file = "Some(true)" /\ pair.some
      THEN [Same EXCEPT !.properties =
                          insert_pair(properties, pair.v[1], pair.v[2])]
      ELSE IF /\ section_matches_file = "None"
              /\ pair.some
              /\ eq_ignore_ascii_case(pair.v[1], ROOT)
              /\ eq_ignore_ascii_case(pair.v[2], TRUE_STR)
      THEN [Same EXCEPT !.properties = clear(properties)]
      ELSE Same

\* parse_dir: the line without its line end and its outer blanks.
parse_dir_trim(line) ==
  trim(unwrap_or(strip_suffix(unwrap_or(strip_suffix(line, "\n"), line), "\r"),
                 line))

\* parse_dir: the body of the loop for the line `l`, trimmed already.
parse_dir_trimmed(properties, section_matches_file, normalized_file_path, normalized_ec_dir, l) ==
  parse_dir_branch(properties, section_matches_file, l,
                   IF Len(l) > 0 /\ l[1] \in COMMENT
                   THEN [tag |-> "Ok", v |-> "None"]
                   ELSE parse_section(normalized_file_path, normalized_ec_dir, l),
                   parse_pair(l))

\* parse_dir: the body of the loop for one line read.
parse_dir_line(properties, section_matches_file, normalized_file_path, normalized_ec_dir, line) ==
  parse_dir_trimmed(properties, section_matches_file, normalized_file_path,
                    normalized_ec_dir, parse_dir_trim(line))

(***************************************************************************)
(* The inputs of a call: the target path, the version of the options, and  *)
(* the lines the EditorConfig files are written with.                      *)
(***************************************************************************)

(***************************************************************************)
(* core.rs: the parser of the tamlil-editorconfig crate, which turns the   *)
(* text of one EditorConfig file into a Document.                          *)
(***************************************************************************)

\* Document { preamble: vec![], sections: vec![] }
Document_new == [preamble |-> <<>>, sections |-> <<>>]

\* core.rs fn parse_header: None, or the pattern handed to Glob::new.
core_parse_header(l) ==
  LET a == strip_prefix(l, "[")
  IN  IF a.some THEN strip_suffix(a.v, "]") ELSE None

\* core.rs fn parse_pair: None, InvalidLine for an empty key, or the pair.
core_parse_pair(l) ==
  LET kv == split_once(l, <<"=">>)
  IN  IF ~kv.some THEN None
      ELSE IF Len(trim(kv.v[1])) = 0
      THEN Some([tag |-> "InvalidLine", pair |-> <<>>])
      ELSE Some([tag |-> "Pair", pair |-> <<trim(kv.v[1]), trim(kv.v[2])>>])

\* core.rs fn parse_line.  `compiled` is the outcome of Glob::new(glob) for a
\* header: the constructor of one argument the crate calls is not among the
\* sources, so both outcomes are taken.
core_parse_line(l, compiled) ==
  LET header == core_parse_header(l)
      pair   == core_parse_pair(l)
  IN  IF header.some
      THEN IF compiled THEN [tag |-> "Header", header |-> header.v, pair |-> <<>>]
           ELSE [tag |-> "Glob", header |-> <<>>, pair |-> <<>>]
      ELSE IF pair.some
      THEN [tag |-> pair.v.tag, header |-> <<>>, pair |-> pair.v.pair]
      ELSE [tag |-> "InvalidLine", header |-> <<>>, pair |-> <<>>]

\* core.rs fn parse_file: blank lines and comments are filtered out.
core_is_filtered(l) == Len(l) = 0 \/ l[1] \in COMMENT

\* Document::parse, the body of its loop for one parsed line.
Document_push(d, line) ==
  IF line.tag = "Header"
  THEN [d EXCEPT !.sections = Append(@, [header |-> line.header, pairs |-> <<>>])]
  ELSE IF Len(d.sections) = 0
  THEN [d EXCEPT !.preamble = Append(@, line.pair)]
  ELSE [d EXCEPT !.sections[Len(d.sections)].pairs = Append(@, line.pair)]

PathDeep == <<"/", "a", "/", "b", "/", "x", ".", "p", "y">>

PathTop == <<"/", "f", ".", "t", "x", "t">>

Paths == {PathDeep, PathTop}


\* [*]
LineAll == <<"[", "*", "]", "\n">>

\* [*.txt]
LineTxt == <<"[", "*", ".", "t", "x", "t", "]", "\n">>

\* [{3..1}]
LineBadRange == <<"[", "{", "3", ".", ".", "1", "}", "]", "\n">>

\* ROOT = True
LineRoot == <<"R", "O", "O", "T", " ", "=", " ", "T", "r", "u", "e", "\n">>

\* root=false
LineRootFalse == ROOT \o <<"=", "f", "a", "l", "s", "e", "\n">>

\* indent_size=2
LineSize2 == INDENT_SIZE \o <<"=", "2", "\n">>

\*  Indent_Size = 4, ended by \r\n
LineSize4 ==
  <<" ", "I", "n", "d", "e", "n", "t", "_", "S", "i", "z", "e", " ", "=",
    " ", "4", "\r", "\n">>

\* indent_size=UNSET
LineSizeUnset == INDENT_SIZE \o <<"=", "U", "N", "S", "E", "T", "\n">>

\* indent_style=TAB
LineStyleTab == INDENT_STYLE \o <<"=", "T", "A", "B", "\n">>

\* tab_width=8
LineWidth8 == TAB_WIDTH \o <<"=", "8", "\n">>

\* tab_width=X
LineWidthX == TAB_WIDTH \o <<"=", "X", "\n">>

\* UNSET=x
LineKeyUnset == <<"U", "N", "S", "E", "T", "=", "x", "\n">>

\* Charset=UTF-8
LineCharset ==
  <<"C", "h", "a", "r", "s", "e", "t", "=", "U", "T", "F", "-", "8", "\n">>

\* novalue
LineNoEquals == <<"n", "o", "v", "a", "l", "u", "e", "\n">>

\*  = v
LineNoKey == <<" ", "=", " ", "v", "\n">>

\* # [*]
LineComment == <<"#", " ", "[", "*", "]", "\n">>

\* The files of one call are written with the lines of one vocabulary.
VocabCascade == {LineAll, LineTxt, LineSize2, LineSize4}

VocabRoot == {LineAll, LineTxt, LineRoot, LineSize2}

VocabRootFalse == {LineAll, LineSize2, LineRootFalse}

VocabUnset == {LineAll, LineSize4, LineSizeUnset}

VocabKeys == {LineAll, LineKeyUnset, LineCharset}

VocabCase == {LineAll, LineStyleTab, LineWidthX}

VocabIndent == {LineAll, LineSize2, LineWidth8}

VocabTab == {LineAll, LineStyleTab, LineWidth8}

VocabLenient == {LineAll, LineSize2, LineNoEquals, LineNoKey}

VocabComment == {LineAll, LineSize2, LineComment}

VocabErrors == {LineAll, LineSize2, LineBadRange}

Vocabularies ==
  {VocabCascade, VocabRoot, VocabRootFalse, VocabUnset, VocabKeys, VocabCase, VocabIndent,
   VocabTab, VocabLenient, VocabComment, VocabErrors}

\* The vocabularies that can write the value `tab`.
TabVocabularies == {VocabCase, VocabTab}

\* The vocabulary and the version of a call.  The version changes what
\* process_properties does only for a map that holds the value `tab`, so the
\* version before 0.9.0 goes with the vocabularies that can write it.
Inputs ==
  (Vocabularies \X {MAX_VERSION}) \cup (TabVocabularies \X {<<0, 8, 9>>})

\* The lines Document::parse is given.
VocabDoc == {LineAll, LineSize2, LineNoEquals, LineNoKey, LineComment}

\* The number of lines read in one call, over all the files.
MaxLines == 4

(***************************************************************************)
(* One call of properties_with_options.                                    *)
(***************************************************************************)

VARIABLES
  path,                  \* the target path of the call
  version,               \* options.version
  vocab,                 \* the lines the files of this call are written with
  pc,                    \* where the call is: open, read, process, retain, done
  dir_idx,               \* the directory parse_dir is at, in dirs_of(path)
  files,                 \* per directory visited: whether the EditorConfig
                         \* file exists, and its lines read so far
  properties,            \* the property map
  section_matches_file,  \* parse_dir's Option<bool>: None, Some(true), Some(false)
  cascaded,              \* the property map as process_properties received it
  ret,                   \* the Result the call returns, once it has
  doc,                   \* core::Document::parse: the document built so far
  glob                   \* Glob::new and is_match on their own: the inputs and results

vars ==
  <<path, version, vocab, pc, dir_idx, files, properties,
    section_matches_file, cascaded, ret, doc, glob>>

\* No Glob is built outside the calls of Glob::new on their own.
NoGlob == [ec_dir |-> <<>>, pattern |-> <<>>, new |-> Glob_err(""), is_match |-> ""]

Pending == [kind |-> "Pending", err |-> "", map |-> HashMap_new]

Ok(m) == [kind |-> "Ok", err |-> "", map |-> m]

Err(e) == [kind |-> "Err", err |-> e, map |-> HashMap_new]

\* A panic unwinds the call: nothing is returned.
Panicked == [kind |-> "Panic", err |-> "", map |-> HashMap_new]

lines_read ==
  LET RECURSIVE total(_)
      total(i) == IF i = 0 THEN 0 ELSE Len(files[i].lines) + total(i - 1)
  IN  total(Len(files))

\* properties_with_options, up to the loop over the ancestors.
Init ==
  /\ path \in Paths
  /\ \E inp \in Inputs : vocab = inp[1] /\ version = inp[2]
  /\ pc = "open"
  /\ dir_idx = 1
  /\ files = <<>>
  /\ properties = HashMap_new
  /\ section_matches_file = "None"
  /\ cascaded = HashMap_new
  /\ ret = Pending
  /\ doc = Document_new
  /\ glob = NoGlob

\* parse_dir returned Ok(()): the loop of properties_with_options goes to the
\* next ancestor, or on to process_properties after the last.
next_dir ==
  IF dir_idx < Len(dirs_of(path))
  THEN pc' = "open" /\ dir_idx' = dir_idx + 1
  ELSE pc' = "process" /\ dir_idx' = dir_idx

\* parse_dir: File::open fails with NotFound.
OpenNotFound ==
  /\ pc = "open"
  /\ files' = Append(files, [exists |-> FALSE, lines |-> <<>>])
  /\ next_dir
  /\ UNCHANGED <<path, version, vocab, properties, section_matches_file,
                 cascaded, ret,
                 doc, glob>>

\* parse_dir that keeps the section state the file before left.
OpenFound_keeps_section ==
  /\ pc = "open"
  /\ files' = Append(files, [exists |-> TRUE, lines |-> <<>>])
  /\ pc' = "read"
  /\ UNCHANGED <<path, version, vocab, dir_idx, properties, section_matches_file,
                 cascaded, ret, doc, glob>>

\* parse_dir: File::open succeeds; section_matches_file starts as None.
OpenFound ==
  /\ pc = "open"
  /\ files' = Append(files, [exists |-> TRUE, lines |-> <<>>])
  /\ section_matches_file' = "None"
  /\ pc' = "read"
  /\ UNCHANGED <<path, version, vocab, dir_idx, properties, cascaded, ret,
                 doc, glob>>

\* parse_dir: what the loop body leaves, `r` being the outcome for the line.
line_done(line, r) ==
  /\ files' = [files EXCEPT ![dir_idx].lines = Append(@, line)]
  /\ IF r.tag = "Ok"
     THEN /\ properties' = r.properties
          /\ section_matches_file' = r.section_matches_file
          /\ UNCHANGED <<pc, ret>>
     ELSE /\ pc' = "done"
          /\ ret' = IF r.tag = "Parse" THEN Err("Parse") ELSE Panicked
          /\ UNCHANGED <<properties, section_matches_file>>

\* parse_dir: read_line gives a line, and the loop body handles it.
ReadLine ==
  /\ pc = "read"
  /\ lines_read < MaxLines
  /\ \E line \in vocab :
       line_done(line,
                 parse_dir_line(properties, section_matches_file,
                                normalize_path(path),
                                normalize_path(dirs_of(path)[dir_idx]), line))
  /\ UNCHANGED <<path, version, vocab, dir_idx, cascaded,
                 doc, glob>>

\* parse_dir: read_line gives 0, the end of the file.
EndOfFile ==
  /\ pc = "read"
  /\ next_dir
  /\ UNCHANGED <<path, version, vocab, files, properties,
                 section_matches_file, cascaded, ret,
                 doc, glob>>

\* properties_with_options: process_properties(&mut properties, &options)
ProcessProperties ==
  /\ pc = "process"
  /\ cascaded' = properties
  /\ properties' = process_properties(properties, version)
  /\ pc' = "retain"
  /\ UNCHANGED <<path, version, vocab, dir_idx, files, section_matches_file, ret,
                 doc, glob>>

\* properties_with_options: properties.retain(..); Ok(properties)
Return ==
  /\ pc = "retain"
  /\ properties' = retain_not_unset(properties)
  /\ ret' = Ok(properties')
  /\ pc' = "done"
  /\ UNCHANGED <<path, version, vocab, dir_idx, files, section_matches_file,
                 cascaded,
                 doc, glob>>

Next ==
  \/ OpenNotFound
  \/ OpenFound
  \/ ReadLine
  \/ EndOfFile
  \/ ProcessProperties
  \/ Return

Spec == Init /\ [][Next]_vars

(***************************************************************************)
(* Document::parse on its own: the text of one EditorConfig file, line by  *)
(* line, until the iterator ends or a line is an error.                    *)
(***************************************************************************)
InitDoc ==
  /\ path = PathDeep
  /\ version = MAX_VERSION
  /\ vocab = VocabDoc
  /\ pc = "doc"
  /\ dir_idx = 1
  /\ files = <<[exists |-> TRUE, lines |-> <<>>]>>
  /\ properties = HashMap_new
  /\ section_matches_file = "None"
  /\ cascaded = HashMap_new
  /\ ret = Pending
  /\ doc = Document_new
  /\ glob = NoGlob

\* Document::parse: the iterator of parse_file gives the next line.
DocLine ==
  /\ pc = "doc"
  /\ lines_read < MaxLines
  /\ \E line \in vocab, compiled \in BOOLEAN :
       LET l == trim(line)
           r == core_parse_line(l, compiled)
       IN  /\ files' = [files EXCEPT ![dir_idx].lines = Append(@, line)]
           /\ IF core_is_filtered(l)
              THEN UNCHANGED <<doc, pc, ret>>
              ELSE IF r.tag \in {"Header", "Pair"}
              THEN doc' = Document_push(doc, r) /\ UNCHANGED <<pc, ret>>
              ELSE pc' = "done" /\ ret' = Err(r.tag) /\ UNCHANGED doc
  /\ UNCHANGED <<path, version, vocab, dir_idx, properties,
                 section_matches_file, cascaded, glob>>

\* Document::parse: the iterator has ended, Ok(doc).
DocEnd ==
  /\ pc = "doc"
  /\ pc' = "done"
  /\ ret' = Ok(HashMap_new)
  /\ UNCHANGED <<path, version, vocab, dir_idx, files, properties,
                 section_matches_file, cascaded, doc, glob>>

NextDoc ==
  \/ DocLine
  \/ DocEnd

SpecDoc == InitDoc /\ [][NextDoc]_vars


(***************************************************************************)
(* What the files of the call hold, read off `files` line by line: the     *)
(* vocabulary the properties below are stated in.                          *)
(***************************************************************************)

\* The places of the lines read so far: <<directory, line number>>.
Places ==
  UNION {{<<d, i>> : i \in 1..Len(files[d].lines)} : d \in 1..Len(files)}

\* The place a comes before the place b in the order of reading.
Before(a, b) == a[1] < b[1] \/ (a[1] = b[1] /\ a[2] < b[2])

\* The text of the line at a place, without its line end and outer blanks.
TextAt(pl) == trim(files[pl[1]].lines[pl[2]])

IsCommentText(l) == Len(l) > 0 /\ l[1] \in {"#", ";"}

IsHeaderText(l) ==
  Len(l) >= 2 /\ l[1] = "[" /\ l[Len(l)] = "]" /\ ~IsCommentText(l)

PatternOf(l) == SubSeq(l, 2, Len(l) - 1)

\* key=value with a key that is not blank.
IsPairText(l) ==
  /\ ~IsCommentText(l)
  /\ ~IsHeaderText(l)
  /\ \E i \in 1..Len(l) :
       /\ l[i] = "="
       /\ \A j \in 1..(i - 1) : l[j] # "="
       /\ \E j \in 1..(i - 1) : l[j] \notin WhiteSpace

KeyOf(l) == to_lowercase(trim(SubSeq(l, 1, find(l, <<"=">>) - 1)))

RawValueOf(l) == trim(SubSeq(l, find(l, <<"=">>) + 1, Len(l)))

\* The value as the map stores it.
ValueOf(l) ==
  IF KeyOf(l) \in SPECIAL_KEYS THEN to_lowercase(RawValueOf(l)) ELSE RawValueOf(l)

\* The header that governs a place: the nearest header line before it in the
\* same file, <<d, 0>> when the place is in the preamble.
HeaderOf(pl) ==
  LET hs == {i \in 1..(pl[2] - 1) : IsHeaderText(TextAt(<<pl[1], i>>))}
  IN  IF hs = {} THEN <<pl[1], 0>>
      ELSE <<pl[1], CHOOSE i \in hs : \A j \in hs : j <= i>>

InPreamble(pl) == HeaderOf(pl)[2] = 0

\* The header at a place compiles, for the directory `ec_dir`.
CompilesFor(pl, ec_dir) == Glob_new(ec_dir, PatternOf(TextAt(pl))).ok

\* The header at a place matches the target path.
HeaderMatches(pl) ==
  LET g == Glob_new(dirs_of(path)[pl[1]], PatternOf(TextAt(pl)))
  IN  g.ok /\ Glob_is_match(g, path) = "true"

\* A pair under a header that matches the target path.
Effective(pl) ==
  /\ IsPairText(TextAt(pl))
  /\ ~InPreamble(pl)
  /\ HeaderMatches(HeaderOf(pl))

EffectiveFor(k) == {pl \in Places : Effective(pl) /\ KeyOf(TextAt(pl)) = k}

\* The last place of a non-empty set of places.
LastOf(pls) == CHOOSE a \in pls : \A b \in pls : b = a \/ Before(b, a)

\* The file of directory d has `root = true` in its preamble.
IsRootFile(d) ==
  \E pl \in Places :
    /\ pl[1] = d
    /\ InPreamble(pl)
    /\ IsPairText(TextAt(pl))
    /\ KeyOf(TextAt(pl)) = ROOT
    /\ to_lowercase(RawValueOf(TextAt(pl))) = TRUE_STR

\* The directory is the filesystem root.
IsFsRoot(d) == dirs_of(path)[d] = <<"/">>

IsUnsetValue(v) == to_lowercase(v) = UNSET

IsNumeric(v) == Len(v) > 0 /\ \A i \in 1..Len(v) : v[i] \in Digits

(***************************************************************************)
(* C1: last writer wins along the cascade.  With no EditorConfig file at   *)
(* the filesystem root and no root file, the map the cascade leaves, before*)
(* post-processing, holds exactly the keys of the pairs under a matching   *)
(* header, each with the value of the last such pair in the order of       *)
(* reading (shallowest directory first, each file top to bottom).          *)
(***************************************************************************)
LastWriterWins ==
  (/\ pc = "process"
   /\ \A d \in 1..Len(files) : files[d].exists => ~IsFsRoot(d) /\ ~IsRootFile(d))
  => LET eff == {pl \in Places : Effective(pl)}
     IN  /\ DOMAIN properties = {KeyOf(TextAt(pl)) : pl \in eff}
         /\ \A k \in DOMAIN properties :
              properties[k] =
                ValueOf(TextAt(LastOf({pl \in eff : KeyOf(TextAt(pl)) = k})))

\* A deeper file has overridden the value a shallower file gave the key.
LastWriterWinsWitness ==
  /\ pc = "process"
  /\ \A d \in 1..Len(files) : files[d].exists => ~IsFsRoot(d) /\ ~IsRootFile(d)
  /\ \E a, c \in EffectiveFor(INDENT_SIZE) :
       /\ a[1] < c[1]
       /\ ValueOf(TextAt(a)) # ValueOf(TextAt(c))
       /\ c = LastOf(EffectiveFor(INDENT_SIZE))
       /\ properties[INDENT_SIZE] = ValueOf(TextAt(c))

(***************************************************************************)
(* C2: a file with `root = true` in its preamble discards what shallower   *)
(* files set.  When the call returns a map and the file of directory d is  *)
(* a root file, every entry of the cascaded map comes from the last pair   *)
(* for its key in the files at d and deeper; if d is the deepest root file *)
(* the cascaded map has exactly the keys of those pairs; and every key of  *)
(* the returned map is a cascaded key or a key post-processing derives.    *)
(***************************************************************************)
RootDiscardsShallower ==
  ret.kind = "Ok" =>
    \A d \in 1..Len(files) :
      IsRootFile(d) =>
        LET from_d(k) == {pl \in EffectiveFor(k) : pl[1] >= d}
        IN  /\ \A k \in DOMAIN cascaded :
                 /\ from_d(k) # {}
                 /\ cascaded[k] = ValueOf(TextAt(LastOf(from_d(k))))
            /\ (\A e \in (d + 1)..Len(files) : ~IsRootFile(e)) =>
                 DOMAIN cascaded =
                   {KeyOf(TextAt(pl)) : pl \in {q \in Places : Effective(q) /\ q[1] >= d}}
            /\ DOMAIN ret.map \subseteq DOMAIN cascaded \cup {INDENT_SIZE, TAB_WIDTH}

\* A pair a shallower file set under a matching header is gone from the map
\* returned, because a deeper file is a root file.
RootDiscardsShallowerWitness ==
  /\ ret.kind = "Ok"
  /\ \E d \in 1..Len(files) :
       /\ IsRootFile(d)
       /\ \E pl \in Places :
            /\ Effective(pl)
            /\ pl[1] < d
            /\ KeyOf(TextAt(pl)) \notin DOMAIN ret.map

(***************************************************************************)
(* C3, as the specification states it: a key whose cascaded value is       *)
(* `unset`, in any case, is absent from the map returned, and so is a      *)
(* tab_width derived from an unset indent_size.                            *)
(***************************************************************************)
UnsetValueAbsent ==
  ret.kind = "Ok" =>
    /\ \A k \in DOMAIN cascaded :
         IsUnsetValue(cascaded[k]) => k \notin DOMAIN ret.map
    /\ \A k \in DOMAIN ret.map : ~IsUnsetValue(ret.map[k])

(***************************************************************************)
(* C3, as the code has it: only the key `unset` is removed before the      *)
(* return.  A key other than `unset` whose cascaded value is `unset` is in *)
(* the map returned with that value, and an unset indent_size with no      *)
(* cascaded tab_width gives the map a tab_width of the same value.         *)
(***************************************************************************)
UnsetValueKept ==
  ret.kind = "Ok" =>
    /\ UNSET \notin DOMAIN ret.map
    /\ \A k \in DOMAIN cascaded \ {UNSET} :
         IsUnsetValue(cascaded[k]) =>
           k \in DOMAIN ret.map /\ ret.map[k] = cascaded[k]
    /\ (/\ INDENT_SIZE \in DOMAIN cascaded
        /\ IsUnsetValue(cascaded[INDENT_SIZE])
        /\ TAB_WIDTH \notin DOMAIN cascaded)
       => TAB_WIDTH \in DOMAIN ret.map /\ ret.map[TAB_WIDTH] = cascaded[INDENT_SIZE]

\* A matching section set indent_size to 4 and then to unset, and the call
\* has returned a map with indent_size and tab_width both `unset`.
UnsetValueKeptWitness ==
  /\ ret.kind = "Ok"
  /\ \E a, b \in EffectiveFor(INDENT_SIZE) :
       /\ a[1] = b[1] /\ a[2] < b[2]
       /\ ValueOf(TextAt(a)) = <<"4">>
       /\ ValueOf(TextAt(b)) = UNSET
       /\ b = LastOf(EffectiveFor(INDENT_SIZE))
  /\ INDENT_SIZE \in DOMAIN ret.map /\ ret.map[INDENT_SIZE] = UNSET
  /\ TAB_WIDTH \in DOMAIN ret.map /\ ret.map[TAB_WIDTH] = UNSET

(***************************************************************************)
(* C4: in every map returned, the value of each of the six supported keys  *)
(* is its own lowercase form, an indent_size written by post-processing    *)
(* included.                                                               *)
(***************************************************************************)
SupportedValuesLowercase ==
  ret.kind = "Ok" =>
    \A k \in SPECIAL_KEYS \cap DOMAIN ret.map : ret.map[k] = to_lowercase(ret.map[k])

(***************************************************************************)
(* C5, as the specification states it: in every map returned, a numeric    *)
(* indent_size comes with a tab_width equal to it.                         *)
(***************************************************************************)
NumericIndentSizeEqualsTabWidth ==
  (/\ ret.kind = "Ok"
   /\ INDENT_SIZE \in DOMAIN ret.map
   /\ IsNumeric(ret.map[INDENT_SIZE]))
  => /\ TAB_WIDTH \in DOMAIN ret.map
     /\ ret.map[TAB_WIDTH] = ret.map[INDENT_SIZE]

(***************************************************************************)
(* C5, as the code has it: in every map returned, a numeric indent_size    *)
(* comes with a tab_width.  The tab_width is the one the files set, left   *)
(* as it is, when they set one; it equals indent_size when they set none,  *)
(* and when indent_size was `tab` (or absent under indent_style tab) and   *)
(* took its number from tab_width.                                         *)
(***************************************************************************)
NumericIndentSizeHasTabWidth ==
  (/\ ret.kind = "Ok"
   /\ INDENT_SIZE \in DOMAIN ret.map
   /\ IsNumeric(ret.map[INDENT_SIZE]))
  => /\ TAB_WIDTH \in DOMAIN ret.map
     /\ TAB_WIDTH \in DOMAIN cascaded => ret.map[TAB_WIDTH] = cascaded[TAB_WIDTH]
     /\ TAB_WIDTH \notin DOMAIN cascaded => ret.map[TAB_WIDTH] = ret.map[INDENT_SIZE]
     /\ (INDENT_SIZE \notin DOMAIN cascaded \/ cascaded[INDENT_SIZE] = TAB)
          => ret.map[TAB_WIDTH] = ret.map[INDENT_SIZE]

\* The files set indent_size to 2 and tab_width to 8 and the map returned
\* has both as set.
NumericIndentSizeHasTabWidthWitness ==
  /\ ret.kind = "Ok"
  /\ EffectiveFor(INDENT_SIZE) # {} /\ EffectiveFor(TAB_WIDTH) # {}
  /\ INDENT_SIZE \in DOMAIN ret.map /\ ret.map[INDENT_SIZE] = <<"2">>
  /\ TAB_WIDTH \in DOMAIN ret.map /\ ret.map[TAB_WIDTH] = <<"8">>

(***************************************************************************)
(* C6: every key of every map returned is its own lowercase form and is    *)
(* not `unset`, whatever the case of the keys in the files.                *)
(***************************************************************************)
KeysLowercaseNotUnset ==
  ret.kind = "Ok" =>
    \A k \in DOMAIN ret.map : k = to_lowercase(k) /\ k # UNSET

\* The key as the file writes it.
RawKeyOf(l) == trim(SubSeq(l, 1, find(l, <<"=">>) - 1))

\* A matching section wrote a key in mixed case, which the map returned
\* holds in lowercase, and wrote the key `UNSET`, which it does not hold.
KeysLowercaseNotUnsetWitness ==
  /\ ret.kind = "Ok"
  /\ \E pl \in Places :
       /\ Effective(pl)
       /\ RawKeyOf(TextAt(pl)) # KeyOf(TextAt(pl))
       /\ KeyOf(TextAt(pl)) \in DOMAIN ret.map
  /\ \E pl \in Places :
       /\ Effective(pl)
       /\ RawKeyOf(TextAt(pl)) # KeyOf(TextAt(pl))
       /\ KeyOf(TextAt(pl)) = UNSET

(***************************************************************************)
(* process_properties on its own: the map and the version are drawn from   *)
(* every combination of presence and value of indent_style, indent_size    *)
(* and tab_width, with and without other keys, at versions on both sides   *)
(* of 0.9.0; the call then post-processes the map and returns it.          *)
(***************************************************************************)
Absent == <<>>

StyleValues == {Absent, TAB, <<"s", "p", "a", "c", "e">>}

SizeValues == {Absent, TAB, <<"2">>, UNSET}

WidthValues == {Absent, <<"8">>, <<"X">>}

CharsetValues == {Absent, <<"u", "t", "f", "-", "8">>}

UnsetKeyValues == {Absent, <<"x">>}

VersionsPP == {<<0, 8, 9>>, V0_9_0, MAX_VERSION, <<1, 0, 0>>}

\* The map with the keys whose value is not Absent.
MapOf(style, size, width, charset, unset) ==
  LET all == (INDENT_STYLE :> style) @@ (INDENT_SIZE :> size) @@ (TAB_WIDTH :> width)
               @@ (CHARSET :> charset) @@ (UNSET :> unset)
  IN  [k \in {x \in DOMAIN all : all[x] # Absent} |-> all[k]]

InitPP ==
  /\ path = PathDeep
  /\ version \in VersionsPP
  /\ vocab = {}
  /\ pc = "process"
  /\ dir_idx = Len(dirs_of(PathDeep)) + 1
  /\ files = [d \in 1..Len(dirs_of(PathDeep)) |-> [exists |-> FALSE, lines |-> <<>>]]
  /\ \E style \in StyleValues, size \in SizeValues, width \in WidthValues,
        charset \in CharsetValues, unset \in UnsetKeyValues :
       properties = MapOf(style, size, width, charset, unset)
  /\ section_matches_file = "None"
  /\ cascaded = HashMap_new
  /\ ret = Pending
  /\ doc = Document_new
  /\ glob = NoGlob

NextPP ==
  \/ ProcessProperties
  \/ Return

SpecPP == InitPP /\ [][NextPP]_vars

\* Rule A, from 0.9.0 on: indent_style tab and no indent_size give indent_size tab.
RuleA(m, v) ==
  IF /\ ~is_lt(Version_cmp(v, V0_9_0))
     /\ INDENT_STYLE \in DOMAIN m /\ m[INDENT_STYLE] = TAB
     /\ INDENT_SIZE \notin DOMAIN m
  THEN (INDENT_SIZE :> TAB) @@ m
  ELSE m

\* Rule B, from 0.9.0 on: indent_size tab takes the value of a present tab_width.
RuleB(m, v) ==
  IF /\ ~is_lt(Version_cmp(v, V0_9_0))
     /\ INDENT_SIZE \in DOMAIN m /\ m[INDENT_SIZE] = TAB
     /\ TAB_WIDTH \in DOMAIN m
  THEN (INDENT_SIZE :> m[TAB_WIDTH]) @@ m
  ELSE m

\* Rule C, any version: an absent tab_width takes the value of a present
\* indent_size, unless from 0.9.0 on that value is tab.
RuleC(m, v) ==
  IF /\ INDENT_SIZE \in DOMAIN m
     /\ TAB_WIDTH \notin DOMAIN m
     /\ (is_lt(Version_cmp(v, V0_9_0)) \/ m[INDENT_SIZE] # TAB)
  THEN (TAB_WIDTH :> m[INDENT_SIZE]) @@ m
  ELSE m

(***************************************************************************)
(* C7: process_properties is rule A, then rule B, then rule C, each rule   *)
(* applied to the map the one before it left, for every combination of     *)
(* presence and value of indent_style, indent_size and tab_width and every *)
(* version; the keys the rules do not name are left as they were.          *)
(***************************************************************************)
PostProcessIsABC ==
  pc \in {"retain", "done"} =>
    LET abc == RuleC(RuleB(RuleA(cascaded, version), version), version)
    IN  /\ pc = "retain" => properties = abc
        /\ (pc = "done" /\ ret.kind = "Ok") => ret.map = retain_not_unset(abc)
        /\ \A k \in DOMAIN cascaded \ {INDENT_SIZE, TAB_WIDTH} :
             k \in DOMAIN abc /\ abc[k] = cascaded[k]

\* Version 0.17.2, indent_style=tab and tab_width=8: rule A then rule B have
\* given indent_size the value 8.
PostProcessIsABCWitness ==
  /\ pc = "retain"
  /\ version = MAX_VERSION
  /\ cascaded = (INDENT_STYLE :> TAB) @@ (TAB_WIDTH :> <<"8">>)
  /\ properties = (INDENT_STYLE :> TAB) @@ (TAB_WIDTH :> <<"8">>) @@ (INDENT_SIZE :> <<"8">>)

\* A line that is neither blank, a comment, a header nor a pair with a key.
MalformedText(l) ==
  Len(l) > 0 /\ ~IsCommentText(l) /\ ~IsHeaderText(l) /\ ~IsPairText(l)

\* The step reads one more line of the file at hand.
LineRead ==
  /\ pc \in {"read", "doc"}
  /\ Len(files') = Len(files)
  /\ Len(files'[dir_idx].lines) = Len(files[dir_idx].lines) + 1

(***************************************************************************)
(* C8: the line parser is lenient.  Reading a line that is neither blank,  *)
(* a comment, a header nor a pair with a non-empty key does not make the   *)
(* parse fail and changes neither the property map, nor the section state, *)
(* nor the document: the parse goes on as if the line were not there.      *)
(***************************************************************************)
LenientParser ==
  [][(LineRead /\ MalformedText(TextAt(<<dir_idx, Len(files[dir_idx].lines)>>)'))
       => UNCHANGED <<properties, section_matches_file, doc, pc, ret>>]_vars

\* A header that does not compile for the directory of its file.
BadHeader(pl) ==
  IsHeaderText(TextAt(pl)) /\ ~CompilesFor(pl, dirs_of(path)[pl[1]])

(***************************************************************************)
(* C9: a glob that fails to compile aborts the call.  Once a header that   *)
(* does not compile has been read, the call has returned Error::Parse and  *)
(* no map, whatever the header would have matched and whatever pairs were  *)
(* accumulated before it.                                                  *)
(***************************************************************************)
GlobErrorAborts ==
  (\E d \in 1..Len(files) : \E i \in 1..Len(files[d].lines) : BadHeader(<<d, i>>))
    => pc = "done" /\ ret = Err("Parse")

\* A header with the range {3..1}, in a file below the filesystem root, has
\* ended with Error::Parse a call that had a property in its map already.
GlobErrorAbortsWitness ==
  /\ ret = Err("Parse")
  /\ DOMAIN properties # {}
  /\ \E pl \in Places :
       /\ BadHeader(pl)
       /\ ~IsFsRoot(pl[1])
       /\ TextAt(pl) = trim(LineBadRange)

\* The directory with its trailing separator stripped.
StrippedDir(d) ==
  LET dir == dirs_of(path)[d]
  IN  IF Len(dir) > 0 /\ dir[Len(dir)] = "/" THEN SubSeq(dir, 1, Len(dir) - 1) ELSE dir

(***************************************************************************)
(* C10: a file in the filesystem root is processed like any other.  Its    *)
(* headers are compiled for its directory with the trailing separator      *)
(* stripped: the call fails with Error::Parse only when some header read   *)
(* does not compile for the stripped directory of its file, and a pair of  *)
(* the root file under a header that matches is in the cascaded map.       *)
(***************************************************************************)
RootDirFileProcessed ==
  /\ ret = Err("Parse") =>
       \E pl \in Places :
         IsHeaderText(TextAt(pl)) /\ ~CompilesFor(pl, StrippedDir(pl[1]))
  /\ pc = "process" =>
       \A pl \in Places :
         (/\ IsFsRoot(pl[1])
          /\ IsPairText(TextAt(pl))
          /\ ~InPreamble(pl)
          /\ \A d \in 1..Len(files) : ~IsRootFile(d)
          /\ LET h == HeaderOf(pl)
                 g == Glob_new(StrippedDir(h[1]), PatternOf(TextAt(h)))
             IN  g.ok /\ Glob_is_match(g, path) = "true")
         => KeyOf(TextAt(pl)) \in DOMAIN properties

(***************************************************************************)
(* Glob::new and Glob::is_match on their own: one glob is compiled for a   *)
(* directory and asked about one path.                                     *)
(***************************************************************************)
GlobEcDirs == {<<"/", "a">>, <<"/", "a", ".", "b">>}

PatFileRange == <<"f", "i", "l", "e", "{", "1", ".", ".", "1", "0", "}", ".", "t", "x", "t">>

PatAltRange == <<"{", "a", ",", "b", "}", "{", "1", ".", ".", "3", "}">>

PatStarPy == <<"*", ".", "p", "y">>

PatDirStarPy == <<"b", "/", "*", ".", "p", "y">>

PatRootedStarPy == <<"/", "b", "/", "*", ".", "p", "y">>

PatNestedSingle == <<"{", "{", "a", "}", ",", "b", "}">>

PatNestedAlt == <<"{", "a", ",", "{", "b", ",", "c", "}", "}">>

PatSingle == <<"{", "a", "}">>

PatReversed == <<"{", "3", ".", ".", "1", "}">>

PatAlt == <<"{", "a", ",", "b", "}">>

PatEmptyAlt == <<"{", ",", "}">>

GlobPatterns ==
  {PatFileRange, PatAltRange, PatStarPy, PatDirStarPy, PatRootedStarPy,
   PatNestedSingle, PatNestedAlt, PatSingle, PatReversed, PatAlt, PatEmptyAlt}

\* The directories the paths asked about are in.
GlobPathDirs == GlobEcDirs \cup {<<"/", "a", "X", "b">>, <<"/", "a", "b">>}

\* What follows the directory in the paths asked about.
GlobTails ==
  {<<"/", "f", "i", "l", "e", "1", ".", "t", "x", "t">>,
   <<"/", "f", "i", "l", "e", "7", ".", "t", "x", "t">>,
   <<"/", "f", "i", "l", "e", "1", "0", ".", "t", "x", "t">>,
   <<"/", "f", "i", "l", "e", "0", ".", "t", "x", "t">>,
   <<"/", "f", "i", "l", "e", "1", "1", ".", "t", "x", "t">>,
   <<"/", "f", "i", "l", "e", "X", ".", "t", "x", "t">>,
   <<"/", "a", "2">>, <<"/", "b", "4">>,
   <<"/", "a">>, <<"/", "b">>, <<"/", "c">>, <<"/", ":", "a">>,
   <<"/">>, <<"/", ":">>, <<"/", "{", "a", "}">>,
   <<"/", "x", ".", "p", "y">>, <<"/", "x", ".", "t", "x", "t">>,
   <<"/", "b", "/", "x", ".", "p", "y">>,
   <<"/", "c", "/", "b", "/", "x", ".", "p", "y">>}

GlobPaths == {d \o t : d \in GlobPathDirs, t \in GlobTails}

InitGlob ==
  /\ path \in GlobPaths
  /\ version = MAX_VERSION
  /\ vocab = {}
  /\ pc = "new"
  /\ dir_idx = 1
  /\ files = <<>>
  /\ properties = HashMap_new
  /\ section_matches_file = "None"
  /\ cascaded = HashMap_new
  /\ ret = Pending
  /\ doc = Document_new
  /\ \E ec_dir \in GlobEcDirs, pattern \in GlobPatterns :
       glob = [NoGlob EXCEPT !.ec_dir = ec_dir, !.pattern = pattern]

\* Glob::new(ec_dir, pattern)
GlobNew ==
  /\ pc = "new"
  /\ glob' = [glob EXCEPT !.new = Glob_new(glob.ec_dir, glob.pattern)]
  /\ pc' = IF glob'.new.ok THEN "is_match" ELSE "done"
  /\ UNCHANGED <<path, version, vocab, dir_idx, files, properties,
                 section_matches_file, cascaded, ret, doc>>

\* glob.is_match(path)
GlobIsMatch ==
  /\ pc = "is_match"
  /\ glob' = [glob EXCEPT !.is_match = Glob_is_match(glob.new, path)]
  /\ pc' = "done"
  /\ UNCHANGED <<path, version, vocab, dir_idx, files, properties,
                 section_matches_file, cascaded, ret, doc>>

NextGlob ==
  \/ GlobNew
  \/ GlobIsMatch

SpecGlob == InitGlob /\ [][NextGlob]_vars

\* The glob has been compiled and asked about the path.
Asked == pc = "done" /\ glob.new.ok

\* The group of `re` that the i-th `{n..m}` of the pattern became.
range_group(re, i) ==
  LET nums == {k \in 1..Len(re) : re[k].t = "num"}
  IN  group_index(re, CHOOSE k \in nums : Cardinality({n \in nums : n <= k}) = i)

\* The path matches the structure of the glob, and the integer matched where
\* the i-th `{n..m}` stands is in the i-th range.
InRanges(g, p) ==
  LET caps == Regex_captures(g.re, p)
  IN  /\ caps.some
      /\ \A i \in 1..Len(g.num_ranges) :
           LET c == caps.v[range_group(g.re, i)]
           IN  c.some => match_in_range(c.v, g.num_ranges[i])

(***************************************************************************)
(* C11: numeric ranges.  is_match is true exactly when the path matches    *)
(* the structure of the pattern and, for each i, the integer matched where *)
(* the i-th `{n..m}` stands is in [n, m], also when the pattern has brace  *)
(* alternations, as `{a,b}{1..3}` has.                                     *)
(***************************************************************************)
NumericRangesChecked ==
  Asked => ((glob.is_match = "true") <=> InRanges(glob.new, path))

\* str::starts_with(&str)
starts_with(s, prefix) ==
  Len(prefix) <= Len(s) /\ SubSeq(s, 1, Len(prefix)) = prefix

\* The pattern on its own, not joined to a directory, matches the whole of
\* `text`.
PatternMatches(pattern, text) ==
  LET parsed == Parser_parse(Parser_new(pattern))
  IN  Glob_all_in_range(Regex_captures(parsed[1], text), parsed[2]) = "true"

\* The ways to cut the path into ec_dir, directories below it, `/` and a
\* basename: the index of that `/`.
BasenameCuts(ec_dir, p) ==
  {k \in (Len(ec_dir) + 1)..Len(p) :
     /\ starts_with(p, ec_dir)
     /\ p[k] = "/"
     /\ p[Len(ec_dir) + 1] = "/"
     /\ ~contains(SubSeq(p, k + 1, Len(p)), "/")}

\* What remains of the path after ec_dir joined with a pattern that has a
\* separator: after ec_dir itself when the pattern starts with `/`, after
\* ec_dir and one `/` otherwise.
JoinedRest(ec_dir, pattern, p) ==
  LET joined == IF pattern[1] = "/" THEN ec_dir ELSE ec_dir \o <<"/">>
  IN  IF starts_with(p, joined)
      THEN Some(SubSeq(p, Len(joined) + 1, Len(p)))
      ELSE None

(***************************************************************************)
(* C12: anchoring.  A pattern without `/` matches a path in ec_dir or in   *)
(* any directory below it whose basename the pattern matches; a pattern    *)
(* with `/` matches exactly the paths that are ec_dir joined (by one `/`,  *)
(* or by the pattern's own leading `/`) with a text the pattern matches    *)
(* as a whole; a path that matches starts with ec_dir.                     *)
(***************************************************************************)
GlobAnchored ==
  Asked =>
    /\ ~contains(glob.pattern, "/") =>
         \A k \in BasenameCuts(glob.ec_dir, path) :
           PatternMatches(glob.pattern, SubSeq(path, k + 1, Len(path)))
             => glob.is_match = "true"
    /\ contains(glob.pattern, "/") =>
         LET rest == JoinedRest(glob.ec_dir, glob.pattern, path)
         IN  (glob.is_match = "true")
               <=> (rest.some /\ PatternMatches(glob.pattern, rest.v))
    /\ glob.is_match = "true" => starts_with(path, glob.ec_dir)

\* `*.py` compiled for /a has been asked about /a/b/x.py, one directory below
\* /a, and matched it.
GlobAnchoredWitness ==
  /\ Asked
  /\ glob.ec_dir = <<"/", "a">>
  /\ glob.pattern = PatStarPy
  /\ path = <<"/", "a", "/", "b", "/", "x", ".", "p", "y">>
  /\ glob.is_match = "true"

(***************************************************************************)
(* properties_with_options as a function of the whole filesystem: the call *)
(* is made on EditorConfig files that are all written beforehand.          *)
(***************************************************************************)

\* parse_dir: the loop over the lines, from line i on; `r` is what the lines
\* before left.
RECURSIVE parse_dir_loop(_, _, _, _, _)
parse_dir_loop(r, normalized_file_path, normalized_ec_dir, lines, i) ==
  IF r.tag # "Ok" \/ i > Len(lines)
  THEN r
  ELSE parse_dir_loop(
         parse_dir_line(r.properties, r.section_matches_file,
                        normalized_file_path, normalized_ec_dir, lines[i]),
         normalized_file_path, normalized_ec_dir, lines, i + 1)

\* fn parse_dir: Ok(()) at once when the file is not found.
parse_dir(props, file_path, ec_dir, file) ==
  LET start == [tag |-> "Ok", properties |-> props, section_matches_file |-> "None"]
  IN  IF ~file.exists
      THEN start
      ELSE parse_dir_loop(start, normalize_path(file_path), normalize_path(ec_dir),
                          file.lines, 1)

\* properties_with_options: the loop over the ancestors, from directory d on.
RECURSIVE ancestors_loop(_, _, _, _)
ancestors_loop(r, fs, file_path, d) ==
  IF r.tag # "Ok" \/ d > Len(dirs_of(file_path))
  THEN r
  ELSE ancestors_loop(parse_dir(r.properties, file_path, dirs_of(file_path)[d], fs[d]),
                      fs, file_path, d + 1)

\* properties_with_options, after the loop over the ancestors.
after_ancestors(r, ver) ==
  IF r.tag = "Ok"
  THEN Ok(retain_not_unset(process_properties(r.properties, ver)))
  ELSE IF r.tag = "Parse" THEN Err("Parse") ELSE Panicked

\* pub fn properties_with_options
properties_with_options(fs, file_path, ver) ==
  after_ancestors(
    ancestors_loop([tag |-> "Ok", properties |-> HashMap_new, section_matches_file |-> "None"],
                   fs, file_path, 1),
    ver)

\* The lines the files of a whole filesystem are written with, and the
\* length of the longest file.
FsVocab == {LineAll, LineRoot, LineSize2, LineBadRange}

MaxFileLines == 2

\* An EditorConfig file: absent, or its lines.
FsFiles ==
  {[exists |-> FALSE, lines |-> <<>>]}
    \cup {[exists |-> TRUE, lines |-> ls] :
            ls \in UNION {[1..n -> FsVocab] : n \in 0..MaxFileLines}}

InitFs ==
  /\ path = PathDeep
  /\ version = MAX_VERSION
  /\ vocab = FsVocab
  /\ pc = "call"
  /\ dir_idx = 1
  /\ files \in [1..Len(dirs_of(PathDeep)) -> FsFiles]
  /\ properties = HashMap_new
  /\ section_matches_file = "None"
  /\ cascaded = HashMap_new
  /\ ret = Pending
  /\ doc = Document_new
  /\ glob = NoGlob

\* One call of properties_with_options on the filesystem.
Call ==
  /\ pc = "call"
  /\ ret' = properties_with_options(files, path, version)
  /\ pc' = "done"
  /\ UNCHANGED <<path, version, vocab, dir_idx, files, properties,
                 section_matches_file, cascaded, doc, glob>>

NextFs ==
  \/ Call

SpecFs == InitFs /\ [][NextFs]_vars

\* The filesystem without the EditorConfig files shallower than directory d.
WithoutShallower(fs, d) ==
  [i \in 1..Len(fs) |-> IF i < d THEN [exists |-> FALSE, lines |-> <<>>] ELSE fs[i]]

(***************************************************************************)
(* C13: a root file ends the upward search.  When the file of directory d  *)
(* has `root = true` in its preamble, what the call returns (the map, or   *)
(* the error) is what it returns on the filesystem without the EditorConfig*)
(* files shallower than d, so it is the same for all filesystems that      *)
(* differ only in those files, also when one of them has a header that     *)
(* does not compile.                                                       *)
(***************************************************************************)
RootFileEndsSearch ==
  pc = "done" =>
    \A d \in 1..Len(files) :
      IsRootFile(d) => ret = properties_with_options(WithoutShallower(files, d), path, version)

\* The pattern has a numeric range `{n..m}` with n above m.
HasReversedRange(pattern) ==
  \E i \in 1..Len(pattern), j \in 1..Len(pattern) :
    /\ i < j
    /\ pattern[i] = "{"
    /\ pattern[j] = "}"
    /\ LET r == parse_range(SubSeq(pattern, i, j))
       IN  r.some /\ r.v[1] > r.v[2]

(***************************************************************************)
(* C14: nested braces.  What a `{` opens is classified up to the `}` that  *)
(* closes it at the same depth, not up to the first `}`, so every pattern  *)
(* whose braces are balanced and properly nested and that has no reversed  *)
(* range compiles, `{{a},b}` among them.                                   *)
(***************************************************************************)
NestedBracesCompile ==
  (/\ pc # "new"
   /\ check_are_braces_paired(glob.pattern)
   /\ ~HasReversedRange(glob.pattern))
    => glob.new.ok

\* The pattern is one brace group of literal alternates: `{s1,s2,...}`.
IsAlternation(pattern) ==
  /\ Len(pattern) >= 3
  /\ pattern[1] = "{"
  /\ pattern[Len(pattern)] = "}"
  /\ contains(pattern, ",")
  /\ \A k \in 2..(Len(pattern) - 1) : ~is_meta_character(pattern[k])

\* The alternates of such a pattern: the texts between its commas.
AlternatesOf(pattern) ==
  LET cuts == {1, Len(pattern)} \cup {k \in 1..Len(pattern) : pattern[k] = ","}
  IN  {SubSeq(pattern, a + 1, b - 1) :
         <<a, b>> \in {c \in cuts \X cuts :
                         c[1] < c[2] /\ \A k \in cuts : ~(c[1] < k /\ k < c[2])}}

(***************************************************************************)
(* C15: a brace group with alternates matches exactly its alternates.  For *)
(* a pattern `{s1,s2,...}` and a path in ec_dir itself, is_match is true   *)
(* exactly when the basename is one of the alternates: `{,}` matches only  *)
(* the empty string, and no other text, such as a `:` before the first     *)
(* alternate, is accepted.                                                 *)
(***************************************************************************)
AlternatesMatchExactly ==
  (Asked /\ IsAlternation(glob.pattern)) =>
    LET rest == JoinedRest(glob.ec_dir, <<"x">>, path)
    IN  (rest.some /\ ~contains(rest.v, "/"))
          => ((glob.is_match = "true") <=> rest.v \in AlternatesOf(glob.pattern))

\* The place of the line read next.
NextPlace == <<dir_idx, Len(files[dir_idx].lines) + 1>>

\* The text of the line the step reads.
TextRead == trim(files'[dir_idx].lines[Len(files[dir_idx].lines) + 1])

\* The pair `root = true` (in any case).
IsRootTrue(l) ==
  IsPairText(l) /\ KeyOf(l) = ROOT /\ to_lowercase(RawValueOf(l)) = TRUE_STR

\* The line read next comes under a header of its file that matched.
UnderMatchingHeader == ~InPreamble(NextPlace) /\ HeaderMatches(HeaderOf(NextPlace))

(***************************************************************************)
(* C16: the section state is per file.  Reading a pair inserts it in the   *)
(* map exactly when a header comes before it in the same file and the      *)
(* nearest such header matched the target path.  A pair in the preamble of *)
(* a file is not inserted, also when the last section of the file before   *)
(* matched, and a pair under a header that did not match leaves the map    *)
(* as it was.                                                              *)
(***************************************************************************)
PairsFollowSection ==
  [][(LineRead /\ pc = "read" /\ IsPairText(TextRead))
       => IF UnderMatchingHeader
          THEN properties' = insert(properties, KeyOf(TextRead), ValueOf(TextRead))
          ELSE \/ properties' = properties
               \/ InPreamble(NextPlace) /\ IsRootTrue(TextRead)]_vars

\* The call has read a file whose last section matched, then a pair in the
\* preamble of a deeper file, and the map does not hold the key of that pair.
PairsFollowSectionWitness ==
  /\ pc = "process"
  /\ \E pl \in Places, h \in Places :
       /\ IsPairText(TextAt(pl))
       /\ InPreamble(pl)
       /\ KeyOf(TextAt(pl)) \notin DOMAIN properties
       /\ h[1] < pl[1]
       /\ IsHeaderText(TextAt(h))
       /\ HeaderMatches(h)
       /\ \A i \in (h[2] + 1)..Len(files[h[1]].lines) : ~IsHeaderText(TextAt(<<h[1], i>>))

(***************************************************************************)
(* C17: the map is cleared only by `root = true` in the preamble.  Reading *)
(* that pair before any header of its file empties the map.  No other line *)
(* removes a key: after a header `root = true` is stored as the property   *)
(* `root` when the header matched and is ignored when it did not, and any  *)
(* other line of the preamble, `root = false` among them, leaves the map   *)
(* as it was.                                                              *)
(***************************************************************************)
RootClearsOnlyInPreamble ==
  [][(LineRead /\ pc = "read")
       => IF InPreamble(NextPlace)
          THEN properties' = IF IsRootTrue(TextRead) THEN HashMap_new ELSE properties
          ELSE /\ DOMAIN properties \subseteq DOMAIN properties'
               /\ IsRootTrue(TextRead) =>
                    properties' = IF UnderMatchingHeader
                                  THEN insert(properties, ROOT, RawValueOf(TextRead))
                                  ELSE properties]_vars

\* `root = true` was read under a header that did not match, after the file
\* before had set a property, and the map still holds that property.
RootClearsOnlyInPreambleWitness ==
  /\ pc = "read"
  /\ DOMAIN properties # {}
  /\ Len(files[dir_idx].lines) >= 2
  /\ IsRootTrue(TextAt(<<dir_idx, Len(files[dir_idx].lines)>>))
  /\ ~InPreamble(<<dir_idx, Len(files[dir_idx].lines)>>)
  /\ ~HeaderMatches(HeaderOf(<<dir_idx, Len(files[dir_idx].lines)>>))

=============================================================================
